---- MODULE Spec2Model ----
(***************************************************************************)
(* A model of rusty-brain's scalar computational graph (src/src/node.rs):  *)
(* the node registry, the wiring functions connect / connect_init, the     *)
(* forward evaluation calc_activation, the backward recursion              *)
(* calc_activation_derivative and the weight update update_weights, and of *)
(* the layers and the Network built on it (src/src/layers.rs,              *)
(* src/src/network.rs).                                                    *)
(* There is one specification per concern, over the same variables:        *)
(* SpecReg (constructors), SpecWire (wiring), SpecFwd (forward), SpecBack  *)
(* (backward), SpecAgainst (calc_derivative_against alone), Spec (weight   *)
(* updates after a training step), SpecSigmoid (weight updates of a        *)
(* Sigmoid node) and SpecNet (the methods of the layers and the Network).  *)
(*                                                                         *)
(* Numbers.  The program computes in f64.  The model draws every value,    *)
(* weight, seed and step size from small sets of integers; on such inputs  *)
(* every sum and product of the program is an integer far below 2^53, so   *)
(* the f64 arithmetic is exact and Int arithmetic models it.  The one      *)
(* division, in the loss function, is by 1 or 2: its result is an Int or   *)
(* the fraction [num, den] in lowest terms (Quotient).                     *)
(*                                                                         *)
(* Panics.  The program is single threaded and never catches a panic: a    *)
(* panic unwinds main and the program ends.  The variable status records   *)
(* it, and no operation follows a panic.  Locking a std::sync::Mutex that  *)
(* the same thread already holds "might panic or deadlock": both outcomes  *)
(* are modelled, as a nondeterministic choice.                             *)
(***************************************************************************)
EXTENDS Integers, Sequences, FiniteSets, TLC

(***************************************************************************)
(* Bounds of the model.                                                    *)
(***************************************************************************)
\* Node objects that can exist at once (handles 1..MaxObjs).
MaxObjs == 4
\* Back-links (pushes onto some outputs vector) the wiring calls may create.
MaxLinks == 2
\* Top-level calls of calc_activation_derivative in one behaviour.
MaxPasses == 2
\* Calls of update_weights in one behaviour.
MaxUpdates == 2
\* Rows of the training data of a Network.
Rows == 3
\* The largest iteration handed to the methods of a Network.
MaxIter == 5

\* TrainingState::default().calc_derivative_iteration (node.rs:221).
NoIteration == -1

Objs == 1..MaxObjs
NoObj == 0

\* Names given to nodes by the registry scenarios.
RegNames == {"a", "b", "c"}
\* Names of the nodes of the wired populations.
PopNames == {"i", "j", "k", "s", "t", "A", "B", "C", "D", "g"}
Names == RegNames \cup PopNames

\* Constructor values of Input and Constant nodes.
Vals == {2, 3, 4}
\* The values of the Input and of the Constant node of a wired population.
InputVals == {2, 3}
ConstVals == {1, 4}
\* Weights handed to connect_init.
InitWeights == {1, 2}
\* Weights of the edges of the diamond.
DiamondWeights == {1, 2, 3}
\* Weights drawn by connect: thread_rng().gen_range(-1.0, 1.0), the integers
\* of [-1, 1).
RandWeights == {-1, 0}
\* Values of the loss derivative callback.
SeedVals == {1, 2}
\* Step sizes handed to update_weights.
StepSizes == {1, 2}

\* Iteration tokens of the backward calls: training sample indices, which
\* are not negative (main.rs:71, network.rs:63); NoIteration is not among them.
Tokens == {0, 1}

\* What a re-lock of a mutex held by the calling thread may do.
RelockOutcomes == {"panicked", "hung"}
\* The states of the program an operation that ended "running", "panicked"
\* or "relock" (in a re-lock) may leave.
Outcomes(s) == IF s = "relock" THEN RelockOutcomes ELSE {s}

VARIABLES
    kind,       \* kind[h]: "None" (no such object), "Input", "Constant", "Sum", "Sigmoid"
    name,       \* name[h]: the node's name
    value,      \* InputNode.value / ConstantNode.const_value
    activation, \* SumNode.activation / SigmoidNode.activation
    dloss,      \* training_state.dloss
    calc_derivative_iteration,  \* training_state.calc_derivative_iteration
    inputs,     \* inputs[h]: the HashMap name -> NodeWeight [node, weight]
    outputs,    \* outputs[h]: the Vec of consumers
    NODES,      \* the global registry: name -> handle (NoObj: no entry)
    status,     \* "running", "panicked", "hung"
    last,       \* the last operation: [op, node, arg, ret]
    pass,       \* the DerivativeCalculationParams of the last backward call
    entered,    \* entered[h]: accumulations run on h in the last backward call
    reads,      \* the reads of a consumer's dloss in the last backward call
    nested,     \* the most node locks the thread held at once in the last pass
    npasses,    \* top-level backward calls so far
    nupdates,   \* update_weights calls so far
    network     \* the Network: input_layer, output_layer, network_configs

vars == <<kind, name, value, activation, dloss, calc_derivative_iteration,
          inputs, outputs, NODES, status, last, pass, entered, reads, nested,
          npasses, nupdates, network>>

graph_vars == <<inputs, outputs>>
node_vars == <<kind, name, value, NODES, network>>
static_vars == <<kind, name, NODES, network>>
train_vars == <<activation, dloss, calc_derivative_iteration>>
pass_vars == <<pass, entered, reads, npasses>>

(***************************************************************************)
(* Helpers.                                                                *)
(***************************************************************************)
RECURSIVE SumOver(_, _)
\* Sum of f[x] for x in S (the fold of calc_activation, node.rs:438-442).
SumOver(S, f) ==
    IF S = {} THEN 0
    ELSE LET x == CHOOSE y \in S : TRUE IN f[x] + SumOver(S \ {x}, f)

\* An empty HashMap.
NoInputs == [x \in {} |-> x]

\* HashMap::insert: the entry of key k is (over)written.
MapInsert(m, k, v) == [x \in (DOMAIN m) \cup {k} |-> IF x = k THEN v ELSE m[x]]

NoPass ==
    [calc_derivative_iteration |-> NoIteration,
     output_nodes_loss_fn_derivative |-> NoInputs]

Allocated == {h \in Objs : kind[h] # "None"}

\* No Network built: the layers hold no node and no row.
NoNetwork ==
    [input_layer |-> [input_nodes |-> <<>>, training_inputs |-> <<>>],
     output_layer |-> [output_nodes |-> <<>>, training_ground_truths |-> <<>>],
     network_configs |-> [learning_rate |-> 0]]

Links == SumOver(Objs, [h \in Objs |-> Len(outputs[h])])

(***************************************************************************)
(* Populations: the nodes a scenario constructs before it wires them.      *)
(* Handle h is the h-th node constructed; every name is distinct, so every *)
(* constructor returned (register_node did not panic).                     *)
(***************************************************************************)
\* InputNode::new("i", v), ConstantNode::new("k", c), SumNode::new("s"),
\* SumNode::new("t").
MixedKinds == <<"Input", "Constant", "Sum", "Sum">>
MixedNames == <<"i", "k", "s", "t">>
\* SumNode::new("A"), ..., SumNode::new("D"): the nodes of the diamond.
DiamondKinds == <<"Sum", "Sum", "Sum", "Sum">>
DiamondNames == <<"A", "B", "C", "D">>

KindsOf(ks) == [h \in Objs |-> IF h <= Len(ks) THEN ks[h] ELSE "None"]
NamesOf(ns) == [h \in Objs |-> IF h <= Len(ns) THEN ns[h] ELSE "a"]
RegistryOf(ns) ==
    [nm \in Names |->
        IF \E h \in 1..Len(ns) : ns[h] = nm
        THEN CHOOSE h \in 1..Len(ns) : ns[h] = nm
        ELSE NoObj]

(***************************************************************************)
(* Construction: X::new and register_node.                                 *)
(***************************************************************************)
\* The registry after NODES.insert(name, node): insert overwrites the entry.
register_node_map(reg, nm, h) == [reg EXCEPT ![nm] = h]

\* register_node panics when insert returned the entry it replaced.
register_node_status(reg, nm) == IF reg[nm] # NoObj THEN "panicked" ELSE "running"

\* The handle of the next node object.
NextObj == CHOOSE h \in Objs : kind[h] = "None" /\ \A g \in 1..(h - 1) : kind[g] # "None"

\* A constructor: the node is built, then registered, then returned.
NewNode(k, nm, v) ==
    /\ status = "running"
    /\ \E h \in Objs : kind[h] = "None"
    /\ kind' = [kind EXCEPT ![NextObj] = k]
    /\ name' = [name EXCEPT ![NextObj] = nm]
    /\ value' = [value EXCEPT ![NextObj] = v]
    /\ NODES' = register_node_map(NODES, nm, NextObj)
    /\ status' = register_node_status(NODES, nm)
    /\ last' = [op |-> "new", node |-> NextObj, arg |-> NoObj, ret |-> 0]
    /\ network' = network
    /\ UNCHANGED <<graph_vars, train_vars, pass_vars, nupdates, nested>>

InputNode_new == \E nm \in RegNames, v \in Vals : NewNode("Input", nm, v)
ConstantNode_new == \E nm \in RegNames, v \in Vals : NewNode("Constant", nm, v)
SumNode_new == \E nm \in RegNames : NewNode("Sum", nm, 0)

(***************************************************************************)
(* Wiring: connect and connect_init.  A graph is [inputs, outputs, status].*)
(***************************************************************************)
\* add_output_node: the same push for every kind of node.
add_output_node(outs, a, b) == [outs EXCEPT ![a] = Append(@, b)]

\* SumNode::add_input_node_init: the entry keyed by the producer's name is
\* inserted (or overwritten).
add_input_node_init(ins, b, a, w) ==
    [ins EXCEPT ![b] = MapInsert(@, name[a], [node |-> a, weight |-> w])]

\* connect_init(a, b, w): a.add_output_node(b), then b.add_input_node_init(a, w).
\* An Input or Constant consumer panics in add_input_node_init; a consumer
\* that is the producer itself re-locks the mutex connect_init holds.
connect_init(g, a, b, w) ==
    LET outs == add_output_node(g.outputs, a, b)
    IN IF kind[b] \in {"Input", "Constant"}
       THEN [inputs |-> g.inputs, outputs |-> outs, status |-> "panicked"]
       ELSE IF a = b
       THEN [inputs |-> g.inputs, outputs |-> outs, status |-> "relock"]
       ELSE [inputs |-> add_input_node_init(g.inputs, b, a, w),
             outputs |-> outs, status |-> "running"]

Wire(op, a, b, w) ==
    /\ status = "running"
    /\ Links < MaxLinks
    /\ LET g == connect_init([inputs |-> inputs, outputs |-> outputs,
                              status |-> status], a, b, w)
       IN /\ inputs' = g.inputs
          /\ outputs' = g.outputs
          /\ status' \in Outcomes(g.status)
    /\ last' = [op |-> op, node |-> a, arg |-> b, ret |-> w]
    /\ UNCHANGED <<node_vars, train_vars, pass_vars, nupdates, nested>>

\* connect(a, b): the weight is drawn by add_input_node.
Connect == \E a \in Allocated, b \in Allocated, w \in RandWeights : Wire("connect", a, b, w)

ConnectInit == \E a \in Allocated, b \in Allocated, w \in InitWeights : Wire("connect_init", a, b, w)

\* The graph a sequence of connect_init calls <<<<a, b>>, w>> builds.
RECURSIVE Wired(_)
Wired(script) ==
    IF script = <<>>
    THEN [inputs |-> [h \in Objs |-> NoInputs], outputs |-> [h \in Objs |-> <<>>],
          status |-> "running"]
    ELSE LET g == Wired(SubSeq(script, 1, Len(script) - 1))
             c == script[Len(script)]
         IN connect_init(g, c[1][1], c[1][2], c[2])

(***************************************************************************)
(* The backward recursion, Node::calc_activation_derivative.               *)
(*                                                                         *)
(* A traversal state st is [dloss, entered, status, ret]: the dloss fields *)
(* as written so far, the count of accumulations run per node, whether the *)
(* recursion still runs, and the value the last call returned.  held is    *)
(* the set of nodes whose mutex the thread holds: the caller locks a node  *)
(* before it calls the method, so held is the call chain.                  *)
(***************************************************************************)
\* A calc_derivative_against that forgets the weight: d(o)/d(n) taken as 1.
calc_derivative_against_unweighted(o, input_node_name) ==
    IF kind[o] \in {"Input", "Constant"}
    THEN [ok |-> FALSE, val |-> 0]
    ELSE [ok |-> input_node_name \in DOMAIN inputs[o], val |-> 1]

\* A calc_derivative_against that answers 0.0 for a name that is no key.
calc_derivative_against_or_zero(o, input_node_name) ==
    IF kind[o] \in {"Input", "Constant"}
    THEN [ok |-> FALSE, val |-> 0]
    ELSE IF input_node_name \in DOMAIN inputs[o]
    THEN [ok |-> TRUE, val |-> inputs[o][input_node_name].weight]
    ELSE [ok |-> TRUE, val |-> 0]

\* calc_derivative_against: [ok, val].  Input and Constant nodes panic; a
\* Sum node returns the weight of the entry keyed by the name, and panics
\* (expect) when there is none.  The backward and forward recursions are
\* modelled for graphs of Input, Constant and Sum nodes: SigmoidNode's
\* logistic is not an integer function, and no specification evaluates or
\* differentiates a Sigmoid node.
calc_derivative_against(o, input_node_name) ==
    IF kind[o] \in {"Input", "Constant"}
    THEN [ok |-> FALSE, val |-> 0]
    ELSE IF input_node_name \in DOMAIN inputs[o]
    THEN [ok |-> TRUE, val |-> inputs[o][input_node_name].weight]
    ELSE [ok |-> FALSE, val |-> 0]

\* The test that guards the accumulation (node.rs:108).
NeedsCalculation(n, cs) ==
    calc_derivative_iteration[n] # cs.calc_derivative_iteration

\* The consumers the accumulation loops over: self.output_nodes(), the Vec.
OutputNodes(n) == outputs[n]

\* An accumulation that starts without the reset of dloss.
BeginAccumulation_no_reset(st, n) == [st EXCEPT !.entered[n] = @ + 1]

\* The start of the accumulation (node.rs:117): dloss is reset to 0.0.  The
\* count of accumulations is the model's instrument, not program state.
BeginAccumulation(st, n) == [st EXCEPT !.dloss[n] = 0, !.entered[n] = @ + 1]

\* One term of the sum (node.rs:127-128): d(o)/d(n) * d(loss)/d(o).
dloss_partial_derivative(d, r) == d * r

\* o.lock().unwrap() while the locks of held are held: the traversal state
\* notes how many locks the thread holds now (the model's instrument).
AcquireLock(st, held, o) ==
    [st EXCEPT !.nested = IF Cardinality(held \cup {o}) > @
                          THEN Cardinality(held \cup {o}) ELSE @]

\* A read that takes the dloss the consumer stored before its recursion ran.
consumer_dloss_stored(before, after, o) == before.dloss[o]

\* The consumer's dloss that enters the sum: the value the recursive call
\* o.calc_activation_derivative(&calc_state) returned (node.rs:128); before
\* and after are the traversal states around that call.
consumer_dloss(before, after, o) == after.ret

\* The model's record of that read: who read whose dloss, the value, and
\* whether the accumulation had by then run on every consumer of o.
NoteRead(st, n, o, v) ==
    [st EXCEPT !.reads = @ \cup
        {[node |-> n, consumer |-> o, val |-> v,
          visited |-> \A j \in 1..Len(OutputNodes(o)) :
                          st.entered[OutputNodes(o)[j]] > 0]}]

\* The traversal state a top-level backward call starts with, d being the
\* dloss fields; the caller holds the lock of the start node.
BackwardStart(d) ==
    [dloss |-> d, entered |-> [h \in Objs |-> 0], status |-> "running",
     ret |-> 0, reads |-> {}, nested |-> 1]

RECURSIVE calc_activation_derivative(_, _, _, _)
RECURSIVE AccumulateOutputs(_, _, _, _, _, _)

\* The loop of node.rs:125-131 from position i on, final_dloss being acc.
AccumulateOutputs(n, i, acc, cs, st, held) ==
    IF i > Len(OutputNodes(n))
    THEN [st EXCEPT !.ret = acc]
    ELSE LET o == OutputNodes(n)[i]
             d == calc_derivative_against(o, name[n])
         IN IF o \in held
            THEN [st EXCEPT !.status = "relock"]
            ELSE IF ~d.ok
            THEN [st EXCEPT !.status = "panicked"]
            ELSE LET locked == AcquireLock(st, held, o)
                     r == calc_activation_derivative(o, cs, locked, held \cup {o})
                     v == consumer_dloss(locked, r, o)
                 IN IF r.status # "running"
                    THEN r
                    ELSE AccumulateOutputs(
                             n, i + 1, acc + dloss_partial_derivative(d.val, v),
                             cs, NoteRead(r, n, o, v), held)

calc_activation_derivative(n, cs, st, held) ==
    IF NeedsCalculation(n, cs)
    THEN LET st1 == BeginAccumulation(st, n)
         IN IF Len(OutputNodes(n)) # 0
            THEN LET r == AccumulateOutputs(n, 1, 0, cs, st1, held)
                 IN IF r.status # "running"
                    THEN r
                    ELSE [r EXCEPT !.dloss[n] = r.ret]
            ELSE IF name[n] \in DOMAIN cs.output_nodes_loss_fn_derivative
            THEN LET v == cs.output_nodes_loss_fn_derivative[name[n]]
                 IN [st1 EXCEPT !.dloss[n] = v, !.ret = v]
            ELSE [st1 EXCEPT !.ret = st1.dloss[n]]
    ELSE [st EXCEPT !.ret = st.dloss[n]]

\* DerivativeCalculationParams::new: the token and, for every name of the
\* list, the value of the callback.
DerivativeCalculationParams_new(iter, seed) ==
    [calc_derivative_iteration |-> iter, output_nodes_loss_fn_derivative |-> seed]

\* The nodes a caller puts in the output layer: Sum nodes without consumer.
OutputLayerNodes == {h \in Allocated : kind[h] = "Sum" /\ outputs[h] = <<>>}

\* The seed mappings the callers hand in: every mapping of the names of some
\* output layer nodes to SeedVals.
Seeds == UNION {[K -> SeedVals] : K \in SUBSET {name[h] : h \in OutputLayerNodes}}

\* A top-level call n.lock().unwrap().calc_activation_derivative(&cs).
Propagate(n, iter, seed) ==
    /\ status = "running"
    /\ npasses < MaxPasses
    /\ LET cs == DerivativeCalculationParams_new(iter, seed)
           r == calc_activation_derivative(n, cs, BackwardStart(dloss), {n})
       IN /\ dloss' = r.dloss
          /\ entered' = r.entered
          /\ reads' = r.reads
          /\ nested' = r.nested
          /\ status' \in Outcomes(r.status)
          /\ pass' = cs
          /\ last' = [op |-> "calc_activation_derivative", node |-> n,
                      arg |-> NoObj, ret |-> r.ret]
    /\ npasses' = npasses + 1
    \* the method never assigns training_state.calc_derivative_iteration
    /\ UNCHANGED <<node_vars, graph_vars, activation, calc_derivative_iteration,
                   nupdates>>

CalcActivationDerivative ==
    \E n \in Allocated, iter \in Tokens, seed \in Seeds : Propagate(n, iter, seed)

\* A top-level call o.lock().unwrap().calc_derivative_against(a's name).
\* The method takes &self: it writes nothing.
Against(o, a) ==
    /\ status = "running"
    /\ LET d == calc_derivative_against(o, name[a])
       IN /\ status' = IF d.ok THEN "running" ELSE "panicked"
          /\ last' = [op |-> "calc_derivative_against", node |-> o, arg |-> a,
                      ret |-> d.val]
    /\ UNCHANGED <<node_vars, graph_vars, train_vars, pass_vars, nupdates, nested>>

CalcDerivativeAgainst == \E o \in Allocated, a \in Allocated : Against(o, a)

(***************************************************************************)
(* The forward evaluation, Node::calc_activation.                          *)
(*                                                                         *)
(* A traversal state st is [activation, status, ret].  The fold runs over  *)
(* the HashMap in its iteration order; a sum of integers does not depend   *)
(* on the order, so the model takes the entries in any one order.          *)
(***************************************************************************)
\* A weighted activation that leaves the weight out.
calc_weighted_activation_unweighted(a, weight) == a

\* NodeWeight::calc_weighted_activation, a being the producer's activation.
calc_weighted_activation(a, weight) == a * weight

\* The traversal state a top-level forward call starts with, a being the
\* activation fields; the caller holds the lock of the start node.
ForwardStart(a) == [activation |-> a, status |-> "running", ret |-> 0, nested |-> 1]

RECURSIVE calc_activation(_, _, _)
RECURSIVE FoldInputs(_, _, _, _, _)

\* The fold of SumNode::calc_activation over the entries keys, acc so far.
\* NodeWeight::calc_weighted_activation locks the producer, evaluates it and
\* multiplies by the weight.
FoldInputs(n, keys, acc, st, held) ==
    IF keys = {}
    THEN [st EXCEPT !.ret = acc]
    ELSE LET k == CHOOSE x \in keys : TRUE
             nw == inputs[n][k]
         IN IF nw.node \in held
            THEN [st EXCEPT !.status = "relock"]
            ELSE LET r == calc_activation(nw.node, AcquireLock(st, held, nw.node),
                                          held \cup {nw.node})
                 IN IF r.status # "running"
                    THEN r
                    ELSE FoldInputs(n, keys \ {k},
                                    acc + calc_weighted_activation(r.ret, nw.weight),
                                    r, held)

\* Input and Constant nodes return their value; a Sum node folds its inputs
\* and stores the sum as its activation.
calc_activation(n, st, held) ==
    IF kind[n] \in {"Input", "Constant"}
    THEN [st EXCEPT !.ret = value[n]]
    ELSE LET r == FoldInputs(n, DOMAIN inputs[n], 0, st, held)
         IN IF r.status # "running"
            THEN r
            ELSE [r EXCEPT !.activation[n] = r.ret]

\* get_last_calc_activation: the value of an Input or Constant node, the
\* cached activation of a Sum node.
get_last_calc_activation(n) ==
    IF kind[n] \in {"Input", "Constant"} THEN value[n] ELSE activation[n]

\* A top-level call n.lock().unwrap().calc_activation().
Evaluate(n) ==
    /\ status = "running"
    /\ LET r == calc_activation(n, ForwardStart(activation), {n})
       IN /\ activation' = r.activation
          /\ nested' = r.nested
          /\ status' \in Outcomes(r.status)
          /\ last' = [op |-> "calc_activation", node |-> n, arg |-> NoObj,
                      ret |-> r.ret]
    /\ UNCHANGED <<node_vars, graph_vars, dloss, calc_derivative_iteration,
                   pass_vars, nupdates>>

CalcActivation == \E n \in Allocated : Evaluate(n)

(***************************************************************************)
(* The weight update, Node::update_weights.                                *)
(***************************************************************************)
\* A gradient that leaves the producer's activation out.
dloss_dweight_no_activation(n, nw) == dloss[n] * 1

\* d(loss)/d(weight) of the entry nw of node n (node.rs:500-502).
dloss_dweight(n, nw) == dloss[n] * 1 * get_last_calc_activation(nw.node)

\* SumNode::update_weights: the gradients of all entries are collected
\* first, then every weight is lowered by step_size * gradient.
SumNode_update_weights(n, step_size) ==
    [k \in DOMAIN inputs[n] |->
        [node |-> inputs[n][k].node,
         weight |-> inputs[n][k].weight - step_size * dloss_dweight(n, inputs[n][k])]]

\* What update_weights leaves: Input and Constant nodes keep the trait's
\* default (nothing to update), SigmoidNode::update_weights is
\* unimplemented!() and panics.
update_weights(n, step_size) ==
    IF kind[n] = "Sum"
    THEN [inputs |-> SumNode_update_weights(n, step_size), status |-> "running"]
    ELSE IF kind[n] = "Sigmoid"
    THEN [inputs |-> inputs[n], status |-> "panicked"]
    ELSE [inputs |-> inputs[n], status |-> "running"]

\* A top-level call n.lock().unwrap().update_weights(step_size).
Update(n, step_size) ==
    /\ status = "running"
    /\ nupdates < MaxUpdates
    /\ LET r == update_weights(n, step_size)
       IN /\ inputs' = [inputs EXCEPT ![n] = r.inputs]
          /\ status' = r.status
    /\ last' = [op |-> "update_weights", node |-> n, arg |-> NoObj, ret |-> step_size]
    /\ nupdates' = nupdates + 1
    /\ UNCHANGED <<node_vars, outputs, train_vars, pass_vars, nested>>

UpdateWeights == \E n \in Allocated, step_size \in StepSizes : Update(n, step_size)

(***************************************************************************)
(* The layers and the Network (layers.rs, network.rs).  An Array2 is the   *)
(* sequence of its rows.                                                   *)
(***************************************************************************)
Iters == 0..MaxIter

\* The learning rates handed to set_network_configs.
LearningRates == {1, 2}

\* The flattened training data handed to the layers: len values.
TrainingData(len) == [k \in 1..len |-> 2 + (k % 3)]

\* The Array2 the constructors fill from a flattened slice: row idx /
\* node_count, column idx % node_count.
Array2_from(flat, node_count) ==
    [r \in 1..(Len(flat) \div node_count) |->
        [c \in 1..node_count |-> flat[(r - 1) * node_count + c]]]

\* ArrayBase::len: the total number of elements of the array.
Array2_len(m) == IF Len(m) = 0 THEN 0 ELSE Len(m) * Len(m[1])

\* slice(s![idx, ..]): the row of index idx; an index that is not below the
\* number of rows panics.
SliceRow(m, idx) ==
    IF idx < Len(m) THEN [ok |-> TRUE, row |-> m[idx + 1]]
    ELSE [ok |-> FALSE, row |-> <<>>]

\* InputLayer::new and OutputLayer::new, the assertion holding.
InputLayer_new(nodes, training_vals) ==
    [input_nodes |-> nodes,
     training_inputs |-> Array2_from(training_vals, Len(nodes))]

OutputLayer_new(nodes, training_ground_truths) ==
    [output_nodes |-> nodes,
     training_ground_truths |-> Array2_from(training_ground_truths, Len(nodes))]

\* Network::new followed by set_network_configs.
Network_new(input_layer, output_layer, learning_rate) ==
    [input_layer |-> input_layer, output_layer |-> output_layer,
     network_configs |-> [learning_rate |-> learning_rate]]

\* The index both layers compute: iter % len(), len() being the number of
\* elements; a remainder by zero panics.
RingIndex(m, iter) ==
    IF Array2_len(m) = 0 THEN [ok |-> FALSE, row |-> <<>>]
    ELSE SliceRow(m, iter % Array2_len(m))

\* InputLayer::set_iteration on the node values val: [value, status].
set_iteration_on(val, iter) ==
    LET nodes == network.input_layer.input_nodes
        s == RingIndex(network.input_layer.training_inputs, iter)
    IN IF ~s.ok
       THEN [value |-> val, status |-> "panicked"]
       ELSE [value |-> [h \in Objs |->
                          IF \E j \in 1..Len(s.row) : nodes[j] = h
                          THEN s.row[CHOOSE j \in 1..Len(s.row) : nodes[j] = h]
                          ELSE val[h]],
             status |-> "running"]

\* InputLayer::set_iteration: [value, status].
set_iteration(iter) == set_iteration_on(value, iter)

SetIteration ==
    \E iter \in Iters :
        /\ status = "running"
        /\ LET r == set_iteration(iter)
           IN value' = r.value /\ status' = r.status
        /\ last' = [op |-> "set_iteration", node |-> NoObj, arg |-> iter, ret |-> 0]
        /\ UNCHANGED <<static_vars, graph_vars, train_vars, pass_vars, nupdates, nested>>

\* The greatest common divisor of two naturals, not both 0.
RECURSIVE GCD(_, _)
GCD(a, b) == IF b = 0 THEN a ELSE GCD(b, a % b)

\* The f64 num / den, den > 0: the Int when the quotient is an integer, and
\* otherwise the fraction in lowest terms.  The layers of the model hold one
\* or two nodes, so den is 1 or 2 and the f64 quotient is exact.
Quotient(num, den) ==
    IF num % den = 0 THEN num \div den
    ELSE LET g == GCD(IF num < 0 THEN -num ELSE num, den)
         IN [num |-> num \div g, den |-> den \div g]

\* The sum of powi(actual - expected, 2) over the zipped pairs.
RECURSIVE SquaredErrors(_, _)
SquaredErrors(actual, expected) ==
    IF actual = <<>> \/ expected = <<>> THEN 0
    ELSE (Head(actual) - Head(expected)) * (Head(actual) - Head(expected))
         + SquaredErrors(Tail(actual), Tail(expected))

\* The loss function handed to OutputLayer::new: every pair adds its squared
\* error divided by the number of activations, which gives the mean of the
\* squared errors.
loss_function(node_activations, ground_truths) ==
    IF node_activations = <<>> THEN 0
    ELSE Quotient(SquaredErrors(node_activations, ground_truths),
                  Len(node_activations))

\* The loop of calculate_iter_loss from column j on: each output node is
\* locked and evaluated; st.acts collects the activations.
RECURSIVE ActivateOutputs(_, _, _, _)
ActivateOutputs(nodes, j, n, st) ==
    IF j > n \/ st.status # "running" THEN st
    ELSE LET r == calc_activation(nodes[j],
                                  [activation |-> st.activation, status |-> "running",
                                   ret |-> 0, nested |-> st.nested], {nodes[j]})
         IN ActivateOutputs(nodes, j + 1, n,
                            [activation |-> r.activation, status |-> r.status,
                             nested |-> r.nested, acts |-> Append(st.acts, r.ret)])

\* OutputLayer::calculate_iter_loss: [activation, status, nested, ret].
calculate_iter_loss(iter) ==
    LET s == RingIndex(network.output_layer.training_ground_truths, iter)
    IN IF ~s.ok
       THEN [activation |-> activation, status |-> "panicked", nested |-> nested,
             ret |-> 0]
       ELSE LET r == ActivateOutputs(network.output_layer.output_nodes, 1, Len(s.row),
                                     [activation |-> activation, status |-> "running",
                                      nested |-> 1, acts |-> <<>>])
            IN [activation |-> r.activation, status |-> r.status, nested |-> r.nested,
                ret |-> IF r.status = "running" THEN loss_function(r.acts, s.row)
                        ELSE 0]

CalculateIterLoss ==
    \E iter \in Iters :
        /\ status = "running"
        /\ LET r == calculate_iter_loss(iter)
           IN /\ activation' = r.activation
              /\ status' \in Outcomes(r.status)
              /\ nested' = r.nested
              /\ last' = [op |-> "calculate_iter_loss", node |-> NoObj, arg |-> iter,
                          ret |-> r.ret]
        /\ UNCHANGED <<node_vars, graph_vars, dloss, calc_derivative_iteration,
                       pass_vars, nupdates>>

\* The loop of evaluate_gradients from position j on: each input node is
\* locked and calc_activation_derivative called on it.
RECURSIVE PropagateAll(_, _, _, _)
PropagateAll(nodes, j, cs, st) ==
    IF j > Len(nodes) \/ st.status # "running" THEN st
    ELSE PropagateAll(nodes, j + 1, cs,
                      calc_activation_derivative(nodes[j], cs, st, {nodes[j]}))

\* The names of the output layer's nodes, the keys of the seed mapping.
OutputNames ==
    {name[network.output_layer.output_nodes[j]] :
        j \in 1..Len(network.output_layer.output_nodes)}

\* Network::evaluate_gradients(iteration, f): set_iteration, then the
\* parameters, then the loop over the input nodes.
EvaluateGradients ==
    \E iteration \in Iters, f \in [OutputNames -> SeedVals] :
        /\ status = "running"
        /\ LET s == set_iteration(iteration)
               cs == DerivativeCalculationParams_new(iteration, f)
               r == PropagateAll(network.input_layer.input_nodes, 1, cs,
                                 BackwardStart(dloss))
           IN /\ value' = s.value
              /\ IF s.status # "running"
                 THEN /\ status' = s.status
                      /\ UNCHANGED <<dloss, pass, entered, reads, nested>>
                 ELSE /\ status' \in Outcomes(r.status)
                      /\ dloss' = r.dloss
                      /\ pass' = cs
                      /\ entered' = r.entered
                      /\ reads' = r.reads
                      /\ nested' = r.nested
        /\ last' = [op |-> "evaluate_gradients", node |-> NoObj, arg |-> iteration,
                    ret |-> 0]
        /\ UNCHANGED <<static_vars, graph_vars, activation, calc_derivative_iteration,
                       npasses, nupdates>>

\* Network::update_weights: the body is empty.
NetworkUpdateWeights ==
    /\ status = "running"
    /\ last' = [op |-> "Network_update_weights", node |-> NoObj, arg |-> NoObj,
                ret |-> 0]
    /\ UNCHANGED <<node_vars, graph_vars, train_vars, pass_vars, nupdates, nested,
                   status>>

\* Network::set_network_configs: the configuration is replaced.
SetNetworkConfigs ==
    \E learning_rate \in LearningRates :
        /\ status = "running"
        /\ network' = [network EXCEPT
                          !.network_configs = [learning_rate |-> learning_rate]]
        /\ last' = [op |-> "set_network_configs", node |-> NoObj,
                    arg |-> learning_rate, ret |-> 0]
        /\ UNCHANGED <<kind, name, value, NODES, graph_vars, train_vars, pass_vars,
                       nupdates, nested, status>>

\* Network::calc_avg_training_loss: the body is empty.
CalcAvgTrainingLoss ==
    /\ status = "running"
    /\ last' = [op |-> "calc_avg_training_loss", node |-> NoObj, arg |-> NoObj,
                ret |-> 0]
    /\ UNCHANGED <<node_vars, graph_vars, train_vars, pass_vars, nupdates, nested,
                   status>>

\* The loop of train_one_epoch from iter on: set_iteration(iter) for every
\* iter below n; a panic ends it.
RECURSIVE Epoch(_, _, _)
Epoch(iter, n, st) ==
    IF iter >= n \/ st.status # "running" THEN st
    ELSE Epoch(iter + 1, n, set_iteration_on(st.value, iter))

\* Network::train_one_epoch: the loop runs over 0 .. training_inputs.len(),
\* the number of elements.
TrainOneEpoch ==
    /\ status = "running"
    /\ LET r == Epoch(0, Array2_len(network.input_layer.training_inputs),
                      [value |-> value, status |-> "running"])
       IN value' = r.value /\ status' = r.status
    /\ last' = [op |-> "train_one_epoch", node |-> NoObj, arg |-> NoObj, ret |-> 0]
    /\ UNCHANGED <<static_vars, graph_vars, train_vars, pass_vars, nupdates, nested>>

(***************************************************************************)
(* Initial states.                                                         *)
(***************************************************************************)
\* Fresh nodes: TrainingState::default(), activation 0.0, nothing done yet.
InitTraining ==
    /\ activation = [h \in Objs |-> 0]
    /\ dloss = [h \in Objs |-> 0]
    /\ calc_derivative_iteration = [h \in Objs |-> NoIteration]
    /\ status = "running"
    /\ last = [op |-> "init", node |-> NoObj, arg |-> NoObj, ret |-> 0]
    /\ pass = NoPass
    /\ entered = [h \in Objs |-> 0]
    /\ reads = {}
    /\ nested = 0
    /\ npasses = 0
    /\ nupdates = 0

\* The nodes of a population, constructed with the values vs.
InitNodes(ks, ns, vs) ==
    /\ kind = KindsOf(ks)
    /\ name = NamesOf(ns)
    /\ value = [h \in Objs |-> IF h <= Len(vs) THEN vs[h] ELSE 0]
    /\ NODES = RegistryOf(ns)
    /\ network = NoNetwork

InitGraph(g) ==
    /\ inputs = g.inputs
    /\ outputs = g.outputs

\* The mixed population: one Input, one Constant, two Sum nodes.
InitMixedNodes(IV, CV) ==
    \E v \in IV, c \in CV : InitNodes(MixedKinds, MixedNames, <<v, c, 0, 0>>)

\* The connect_init calls that wire the mixed population before a pass:
\* i -> s, k -> s (a bias) and s -> t, each with a weight of InitWeights.
MixedCalls == {<<1, 3>>, <<2, 3>>, <<3, 4>>} \X InitWeights

Scripts(calls, n) == UNION {[1..k -> calls] : k \in 0..n}

\* The mixed population wired by at most MaxLinks successful connect_init
\* calls.
InitMixed(IV, CV) ==
    /\ InitMixedNodes(IV, CV)
    /\ \E script \in Scripts(MixedCalls, MaxLinks) : InitGraph(Wired(script))
    /\ InitTraining

\* The diamond A -> B, A -> C, B -> D, C -> D of Sum nodes.
DiamondScript(ab, ac, bd, cd) ==
    <<<<<<1, 2>>, ab>>, <<<<1, 3>>, ac>>, <<<<2, 4>>, bd>>, <<<<3, 4>>, cd>>>>

InitDiamond ==
    /\ InitNodes(DiamondKinds, DiamondNames, <<0, 0, 0, 0>>)
    /\ \E ab \in DiamondWeights, ac \in DiamondWeights, bd \in InitWeights,
          cd \in InitWeights :
           InitGraph(Wired(DiamondScript(ab, ac, bd, cd)))
    /\ InitTraining

\* No node yet.
InitEmpty ==
    /\ InitNodes(<<>>, <<>>, <<>>)
    /\ InitGraph(Wired(<<>>))
    /\ InitTraining

\* The mixed population, not wired yet.
InitUnwired ==
    /\ InitMixedNodes({2}, {1})
    /\ InitGraph(Wired(<<>>))
    /\ InitTraining

\* A wired graph after one training step of the driver: the forward
\* evaluation of the output layer (calc_activation on every Sum node without
\* consumer), then one backward call on the Input node.
RECURSIVE EvaluateAll(_, _)
EvaluateAll(S, st) ==
    IF S = {} THEN st
    ELSE LET n == CHOOSE x \in S : TRUE
         IN EvaluateAll(S \ {n}, calc_activation(n, st, {n}))

InitTrained ==
    /\ InitMixedNodes(InputVals, {1})
    /\ \E script \in Scripts(MixedCalls, MaxLinks) : InitGraph(Wired(script))
    /\ calc_derivative_iteration = [h \in Objs |-> NoIteration]
    /\ activation = EvaluateAll(OutputLayerNodes,
                                ForwardStart([h \in Objs |-> 0])).activation
    /\ \E seed \in Seeds :
        LET cs == DerivativeCalculationParams_new(0, seed)
            r == calc_activation_derivative(
                     1, cs, BackwardStart([h \in Objs |-> 0]), {1})
        IN /\ dloss = r.dloss
           /\ entered = r.entered
           /\ reads = r.reads
           /\ nested = r.nested
           /\ pass = cs
           /\ last = [op |-> "calc_activation_derivative", node |-> 1,
                      arg |-> NoObj, ret |-> r.ret]
    /\ status = "running"
    /\ npasses = 1
    /\ nupdates = 0

\* A Sigmoid node g fed by the Input node i.  SigmoidNode has no constructor
\* and nothing registers it; its activation is kept in halves (1 is 0.5, the
\* logistic of 0) and its dloss is what a backward call seeded it with.
SigmoidKinds == <<"Input", "Sigmoid">>
SigmoidNames == <<"i", "g">>

\* The activation of g, in halves.
SigmoidActs == {1}

InitSigmoid ==
    /\ kind = KindsOf(SigmoidKinds)
    /\ name = NamesOf(SigmoidNames)
    /\ \E v \in Vals : value = [h \in Objs |-> IF h = 1 THEN v ELSE 0]
    /\ NODES = RegistryOf(<<"i">>)
    /\ network = NoNetwork
    /\ \E w \in InitWeights \cup RandWeights :
           InitGraph(connect_init(Wired(<<>>), 1, 2, w))
    /\ \E a \in SigmoidActs : activation = [h \in Objs |-> IF h = 2 THEN a ELSE 0]
    /\ \E d \in {0} \cup SeedVals : dloss = [h \in Objs |-> IF h = 2 THEN d ELSE 0]
    /\ calc_derivative_iteration = [h \in Objs |-> NoIteration]
    /\ status = "running"
    /\ last = [op |-> "init", node |-> NoObj, arg |-> NoObj, ret |-> 0]
    /\ pass = NoPass
    /\ entered = [h \in Objs |-> 0]
    /\ reads = {}
    /\ nested = 0
    /\ npasses = 0
    /\ nupdates = 0

(***************************************************************************)
(* Specifications.                                                         *)
(***************************************************************************)
\* Construction of nodes.
NextReg == InputNode_new \/ ConstantNode_new \/ SumNode_new
SpecReg == InitEmpty /\ [][NextReg]_vars

\* Wiring of the mixed population.
NextWire == Connect \/ ConnectInit
SpecWire == InitUnwired /\ [][NextWire]_vars

\* Backward passes over wired graphs.
InitBack == InitMixed({2}, {1}) \/ InitDiamond
NextBack == CalcActivationDerivative
SpecBack == InitBack /\ [][NextBack]_vars

\* Forward evaluations over wired graphs.
InitFwd == InitMixed(InputVals, ConstVals)
NextFwd == CalcActivation
SpecFwd == InitFwd /\ [][NextFwd]_vars

\* The population of a Network: two Input nodes and two Sum nodes.
NetKinds == <<"Input", "Input", "Sum", "Sum">>
NetNames == <<"i", "j", "s", "t">>

\* The connect_init calls that wire it: i -> s, j -> s and s -> t, weight 1.
NetCalls == {<<1, 3>>, <<2, 3>>, <<3, 4>>} \X {1}

\* A wired graph with a Network over it: the input layer holds the first or
\* both Input nodes, the output layer the Sum nodes without consumer, both
\* with Rows rows of data.
InitNet ==
    /\ kind = KindsOf(NetKinds)
    /\ name = NamesOf(NetNames)
    /\ value = [h \in Objs |-> IF h <= 2 THEN 2 ELSE 0]
    /\ NODES = RegistryOf(NetNames)
    /\ \E script \in Scripts(NetCalls, MaxLinks) : InitGraph(Wired(script))
    /\ InitTraining
    /\ \E ins \in {<<1>>, <<1, 2>>}, learning_rate \in LearningRates :
        LET outs == IF outputs[3] = <<>> THEN <<3, 4>> ELSE <<4>>
        IN network = Network_new(
               InputLayer_new(ins, TrainingData(Rows * Len(ins))),
               OutputLayer_new(outs, TrainingData(Rows * Len(outs))),
               learning_rate)

\* The methods of the layers and of the Network.
NextNet ==
    \/ SetIteration
    \/ CalculateIterLoss
    \/ EvaluateGradients
    \/ NetworkUpdateWeights
    \/ SetNetworkConfigs
    \/ CalcAvgTrainingLoss
    \/ TrainOneEpoch
SpecNet == InitNet /\ [][NextNet]_vars

\* Direct calls of calc_derivative_against on wired graphs.
InitAgainst == InitMixed({2}, {1})
NextAgainst == CalcDerivativeAgainst
SpecAgainst == InitAgainst /\ [][NextAgainst]_vars

\* Weight updates of a graph with a Sigmoid node.
NextSigmoid == UpdateWeights
SpecSigmoid == InitSigmoid /\ [][NextSigmoid]_vars

\* Weight updates after a training step.
Init == InitTrained
Next == CalcActivation \/ UpdateWeights
Spec == Init /\ [][Next]_vars

(***************************************************************************)
(* Vocabulary of the properties.                                           *)
(***************************************************************************)
Range(seq) == {seq[j] : j \in 1..Len(seq)}

\* How many times x occurs in seq.
Count(seq, x) == Cardinality({j \in 1..Len(seq) : seq[j] = x})

\* The consumers of n, each once.
Consumers(n) == Range(outputs[n])

\* The nodes a backward call on n can reach: n and, transitively, consumers.
RECURSIVE ReachFrom(_, _)
ReachFrom(frontier, seen) ==
    IF frontier \subseteq seen THEN seen
    ELSE ReachFrom(UNION {Consumers(h) : h \in frontier \ seen}, seen \cup frontier)

Reach(n) == ReachFrom({n}, {})

\* Every back-link is there once.
WiredOnce == \A a \in Allocated, b \in Allocated : Count(outputs[a], b) <= 1

\* No node reaches itself.
Acyclic == \A n \in Allocated : n \notin ReachFrom(Consumers(n), {})

\* The chain rule at n: the sum over the consumers c of n, each taken once,
\* of dloss(c) times the weight c holds for n.
ChainRule(n) ==
    SumOver(Consumers(n),
            [c \in Objs |-> IF name[n] \in DOMAIN inputs[c]
                            THEN dloss[c] * inputs[c][name[n]].weight ELSE 0])

BackwardDone == last.op = "calc_activation_derivative" /\ status = "running"

SeedOf == pass.output_nodes_loss_fn_derivative

\* The diamond of the specification: A -> B (2), A -> C (3), B -> D (1),
\* C -> D (1), a backward call on A with the seed D |-> 1.
DiamondExample ==
    /\ name[1] = "A" /\ name[4] = "D"
    /\ inputs[2]["A"].weight = 2 /\ inputs[3]["A"].weight = 3
    /\ inputs[4]["B"].weight = 1 /\ inputs[4]["C"].weight = 1
    /\ BackwardDone /\ last.node = 1
    /\ SeedOf = [x \in {"D"} |-> 1]

(***************************************************************************)
(* Properties of the backward recursion (SpecBack).                        *)
(***************************************************************************)
\* C1: within one backward pass over an acyclic graph wired once, the
\* accumulation over a node's consumers runs once per node: no node is
\* accumulated more than once in a call, and a second call on the same node
\* with the same token returns the stored dloss and accumulates nothing.
C1_AccumulatedOncePerPass ==
    [][(/\ last'.op = "calc_activation_derivative"
        /\ npasses' = npasses + 1
        /\ Acyclic /\ WiredOnce) =>
         /\ \A h \in Objs : entered'[h] <= 1
         /\ (/\ last.op = "calc_activation_derivative"
             /\ last'.node = last.node
             /\ pass'.calc_derivative_iteration = pass.calc_derivative_iteration)
            => /\ \A h \in Objs : entered'[h] = 0
               /\ last'.ret = dloss[last.node]]_vars

\* C2 (as stated): after a backward pass (the call on the Input node) over an
\* acyclic graph wired once, every node with a consumer has the chain-rule
\* dloss.
C2_EveryNodeWithConsumer ==
    (BackwardDone /\ kind[last.node] = "Input" /\ Acyclic /\ WiredOnce) =>
        \A n \in Allocated : outputs[n] # <<>> => dloss[n] = ChainRule(n)

\* C2 (amended): after a backward call over an acyclic graph wired once, every
\* node with a consumer that the call reaches from its start node has the
\* chain-rule dloss; in the diamond with seed D |-> 1 the call on A returns
\* and stores 5.
C2_ReachedNodesChainRule ==
    /\ (BackwardDone /\ Acyclic /\ WiredOnce) =>
           \A n \in Reach(last.node) : outputs[n] # <<>> => dloss[n] = ChainRule(n)
    /\ DiamondExample => (dloss[1] = 5 /\ last.ret = 5)

C2_Witness == DiamondExample /\ dloss[1] = 5 /\ dloss[2] = 1 /\ dloss[3] = 1

\* C7: the dloss a backward call stores for a producer does not depend on how
\* often a consumer occurs in its outputs: it is the chain rule over the
\* consumers, each taken once with the weight it holds.
C7_DuplicateBackLinksHarmless ==
    (BackwardDone /\ Acyclic) =>
        \A n \in Reach(last.node) : outputs[n] # <<>> => dloss[n] = ChainRule(n)

\* C9: after a backward call, every node without consumer that the call
\* reaches holds the seeded value when its name is a key of the seed mapping,
\* and 0 otherwise, whatever it held before; the call did not fail.
C9_TerminalSeedOrZero ==
    last.op = "calc_activation_derivative" =>
        \A n \in Reach(last.node) :
            outputs[n] = <<>> =>
                /\ status = "running"
                /\ dloss[n] = IF name[n] \in DOMAIN SeedOf THEN SeedOf[name[n]] ELSE 0

\* i -> s only, s terminal: an earlier call on i seeded s (dloss of i is not
\* 0), the last call ran on s without a seed and left 0.
C9_Witness ==
    /\ BackwardDone /\ last.node = 3 /\ name[3] = "s"
    /\ outputs[1] = <<3>> /\ outputs[3] = <<>>
    /\ SeedOf = NoInputs
    /\ npasses = 2 /\ dloss[1] # 0
    /\ entered[3] = 1 /\ dloss[3] = 0

(***************************************************************************)
(* Properties of the wiring (SpecWire).                                    *)
(***************************************************************************)
\* C3: a connect / connect_init whose consumer is an Input or a Constant node
\* fails and leaves every node's inputs and outputs as they were.
C3_IllegalWiringLeavesGraph ==
    [][(/\ last'.op \in {"connect", "connect_init"}
        /\ outputs' # outputs \/ inputs' # inputs \/ status' # status
        /\ kind[last'.arg] \in {"Input", "Constant"}) =>
         /\ status' = "panicked"
         /\ inputs' = inputs
         /\ outputs' = outputs]_vars

\* C6: while every wiring call succeeded, b occurs in a.outputs exactly once
\* if a's name is a key of b.inputs, and not at all otherwise.
C6_LinksInSync ==
    status = "running" =>
        \A a \in Allocated, b \in Allocated :
            Count(outputs[a], b) = IF name[a] \in DOMAIN inputs[b] THEN 1 ELSE 0

(***************************************************************************)
(* Properties of the registry (SpecReg).                                   *)
(***************************************************************************)
\* The nodes whose constructor returned.
Returned(h) ==
    kind[h] # "None" /\ ~(status = "panicked" /\ last.op = "new" /\ last.node = h)

\* C8: a constructor called with a registered name fails, so no two created
\* nodes share a name, and the registry maps the name of every created node
\* to that node.
C8_RegistryHoldsCreatedNodes ==
    /\ \A h \in Objs, g \in Objs :
           (Returned(h) /\ Returned(g) /\ name[h] = name[g]) => h = g
    /\ \A h \in Objs : Returned(h) => NODES[name[h]] = h

(***************************************************************************)
(* Properties of the weight update (Spec, SpecSigmoid).                    *)
(***************************************************************************)
\* C4: update_weights(step_size) on a Sum node completes and replaces the
\* weight of every entry by weight - step_size * dloss * the producer's last
\* activation, all read before the call; no other entry changes.
C4_SumUpdateRule ==
    [][(nupdates' = nupdates + 1 /\ kind[last'.node] = "Sum") =>
         LET n == last'.node
             step_size == last'.ret
         IN /\ status' = "running"
            /\ DOMAIN inputs'[n] = DOMAIN inputs[n]
            /\ \A k \in DOMAIN inputs[n] :
                   /\ inputs'[n][k].node = inputs[n][k].node
                   /\ inputs'[n][k].weight =
                          inputs[n][k].weight
                          - step_size * dloss[n]
                            * get_last_calc_activation(inputs[n][k].node)
            /\ \A m \in Objs \ {n} : inputs'[m] = inputs[m]]_vars

\* dloss 2, producer activation 3, step 1: the weight 1 of the entry became
\* 1 - 6 (the example of the specification with weight and step in tenths).
C4_Witness ==
    /\ last.op = "update_weights" /\ last.node = 3 /\ last.ret = 1
    /\ nupdates = 1 /\ status = "running"
    /\ dloss[3] = 2 /\ value[1] = 3
    /\ "i" \in DOMAIN inputs[3] /\ inputs[3]["i"].weight = -5

\* C5: update_weights(step_size) on a Sigmoid node with last activation a
\* completes and replaces every weight by weight - step_size * dloss *
\* a * (1 - a) * the producer's last activation (a in halves: times 4).
C5_SigmoidUpdateRule ==
    [][(nupdates' = nupdates + 1 /\ kind[last'.node] = "Sigmoid") =>
         LET n == last'.node
             step_size == last'.ret
         IN /\ status' = "running"
            /\ DOMAIN inputs'[n] = DOMAIN inputs[n]
            /\ \A k \in DOMAIN inputs[n] :
                   4 * inputs'[n][k].weight =
                       4 * inputs[n][k].weight
                       - step_size * dloss[n]
                         * activation[n] * (2 - activation[n])
                         * get_last_calc_activation(inputs[n][k].node)]_vars

(***************************************************************************)
(* Properties of the forward evaluation (SpecFwd).                         *)
(***************************************************************************)
\* The value of n as a function of the graph: the stored value of an Input
\* or Constant node, the weighted sum of the values of the producers of a Sum
\* node.
RECURSIVE ForwardValue(_)
ForwardValue(n) ==
    IF kind[n] \in {"Input", "Constant"}
    THEN value[n]
    ELSE SumOver(DOMAIN inputs[n],
                 [k \in DOMAIN inputs[n] |->
                     ForwardValue(inputs[n][k].node) * inputs[n][k].weight])

\* n and, transitively, its producers.
RECURSIVE Upstream(_)
Upstream(n) ==
    {n} \cup UNION {Upstream(inputs[n][k].node) : k \in DOMAIN inputs[n]}

\* C10: calc_activation on a Sum node returns the sum over its entries of the
\* producer's activation times the weight, every Sum node upstream being
\* recomputed and caching its own sum; Input and Constant nodes return their
\* value.  With i = 2 at weight 1 and k = 4 at weight 2 (weights in halves)
\* the sum is 10.
C10_ForwardSum ==
    (last.op = "calc_activation" /\ status = "running") =>
        /\ last.ret = ForwardValue(last.node)
        /\ \A p \in Upstream(last.node) :
               kind[p] = "Sum" => activation[p] = ForwardValue(p)
        /\ kind[last.node] \in {"Input", "Constant"} => last.ret = value[last.node]
        /\ (/\ kind[last.node] = "Sum"
            /\ DOMAIN inputs[last.node] = {"i", "k"}
            /\ value[1] = 2 /\ inputs[last.node]["i"].weight = 1
            /\ value[2] = 4 /\ inputs[last.node]["k"].weight = 2)
           => last.ret = 10

C10_Witness ==
    /\ last = [op |-> "calc_activation", node |-> 3, arg |-> NoObj, ret |-> 10]
    /\ status = "running"
    /\ value[1] = 2 /\ value[2] = 4
    /\ DOMAIN inputs[3] = {"i", "k"}
    /\ inputs[3]["i"].weight = 1 /\ inputs[3]["k"].weight = 2
    /\ activation[3] = 10


(***************************************************************************)
(* Properties of calc_derivative_against (SpecAgainst).                    *)
(***************************************************************************)
\* C11: calc_derivative_against on a Sum node returns the weight the node
\* holds for the name when the name is a key of its inputs and fails when it
\* is not; on an Input or Constant node it fails for every name; the call,
\* failing or not, changes no weight, activation or training state.
C11_DerivativeAgainst ==
    [][last'.op = "calc_derivative_against" =>
         LET o == last'.node
             nm == name[last'.arg]
         IN /\ IF kind[o] = "Sum" /\ nm \in DOMAIN inputs[o]
               THEN status' = "running" /\ last'.ret = inputs[o][nm].weight
               ELSE status' = "panicked"
            /\ UNCHANGED <<inputs, outputs, value, activation, dloss,
                           calc_derivative_iteration>>]_vars

\* s asked for i after i -> s was wired twice, the second time with weight 2.
C11_Witness ==
    /\ last = [op |-> "calc_derivative_against", node |-> 3, arg |-> 1, ret |-> 2]
    /\ status = "running"
    /\ outputs[1] = <<3, 3>>
    /\ inputs[3]["i"].weight = 2


(***************************************************************************)
(* Properties of the stored iteration token (SpecBack).                    *)
(***************************************************************************)
\* C14: after a backward call with token t, every node the call reaches has
\* the stored token t: a node whose stored token differed from t was marked
\* with t when the call came to it.
C14_TokenStored ==
    BackwardDone =>
        \A n \in Reach(last.node) :
            calc_derivative_iteration[n] = pass.calc_derivative_iteration


(***************************************************************************)
(* Properties of the order of the backward recursion (SpecBack).           *)
(***************************************************************************)
\* C15: within a backward call over an acyclic graph, whenever a node read a
\* consumer's dloss for its sum, the accumulation had run on the consumer and
\* on every consumer of the consumer, and the value read is the dloss the
\* consumer holds when the call ends.
C15_ReadsAreFinal ==
    (BackwardDone /\ Acyclic) =>
        \A rd \in reads :
            /\ entered[rd.consumer] > 0
            /\ rd.visited
            /\ rd.val = dloss[rd.consumer]

\* The diamond: A read B and C after each of them had read D.
C15_Witness ==
    /\ DiamondExample
    /\ [node |-> 2, consumer |-> 4, val |-> 1, visited |-> TRUE] \in reads
    /\ [node |-> 3, consumer |-> 4, val |-> 1, visited |-> TRUE] \in reads
    /\ [node |-> 1, consumer |-> 2, val |-> 1, visited |-> TRUE] \in reads
    /\ [node |-> 1, consumer |-> 3, val |-> 1, visited |-> TRUE] \in reads

(***************************************************************************)
(* Properties of the locking (SpecBack).                                   *)
(***************************************************************************)
\* C16: during a pass the thread never holds the lock of one node while it
\* acquires or holds the lock of another: it holds at most one node lock.
C16_OneLockAtATime == nested <= 1


(***************************************************************************)
(* Properties of the layers and of the Network (SpecNet).                  *)
(***************************************************************************)
\* The activations of the output layer's nodes, in the layer's order.
OutputActivations ==
    [j \in 1..Len(network.output_layer.output_nodes) |->
        activation[network.output_layer.output_nodes[j]]]

\* C12: set_iteration(iter) succeeds and gives input node j the value of row
\* iter mod R, column j, of the training inputs, R being the number of rows;
\* calculate_iter_loss(iter) succeeds and takes the loss against row
\* iter mod R of the ground truths.
C12_IterationRing ==
    /\ last.op = "set_iteration" =>
           LET nodes == network.input_layer.input_nodes
               rows == network.input_layer.training_inputs
           IN /\ status = "running"
              /\ \A j \in 1..Len(nodes) :
                     value[nodes[j]] = rows[(last.arg % Len(rows)) + 1][j]
    /\ last.op = "calculate_iter_loss" =>
           LET rows == network.output_layer.training_ground_truths
           IN /\ status = "running"
              /\ last.ret = loss_function(OutputActivations,
                                          rows[(last.arg % Len(rows)) + 1])

\* C13: Network::update_weights, called right after evaluate_gradients,
\* changes the weight of every entry whose gradient, dloss times the
\* producer's last activation, is not 0.
C13_NetworkUpdatesWeights ==
    [][(/\ last.op = "evaluate_gradients"
        /\ status = "running"
        /\ last'.op = "Network_update_weights") =>
         \A n \in Allocated :
             \A k \in DOMAIN inputs[n] :
                 dloss[n] * get_last_calc_activation(inputs[n][k].node) # 0
                     => inputs'[n][k].weight # inputs[n][k].weight]_vars

\* C17: on an acyclic graph evaluate_gradients terminates normally: the
\* call returns, and calc_activation_derivative has run on, and returned
\* for, every node of the input layer.
C17_BackwardPassTerminates ==
    (last.op = "evaluate_gradients" /\ Acyclic) =>
        /\ status = "running"
        /\ \A j \in 1..Len(network.input_layer.input_nodes) :
               entered[network.input_layer.input_nodes[j]] > 0

====
